---- MODULE Spec2Model ----
(***************************************************************************)
(* Model of the three record-keeping programs of the repository:          *)
(*   birthday/ (Person, BirthdayBook), car/ (Car, CarRegistry) and        *)
(*   library/ (Book, Library).                                            *)
(* Each program holds one collection, adds validated records to it and    *)
(* saves it to / loads it from an XML file.                                *)
(*                                                                         *)
(* Python values are modelled as follows.  A str is the sequence of its   *)
(* code points, None is the sequence NoneVal, and the result None of      *)
(* Element.find (no such child) is the sequence Absent.  An int is an     *)
(* integer; str(int) and int(str) are computed digit by digit.            *)
(***************************************************************************)
EXTENDS Integers, Sequences, FiniteSets, TLC

\* ------------------------------------------------------------------------
\* Bounds of the model
\* ------------------------------------------------------------------------
\* add is not called on a collection that already holds MaxLen records
MaxLen == 3
\* a file written by hand holds at most MaxFile entries
MaxFile == 2

\* ------------------------------------------------------------------------
\* Python primitives
\* ------------------------------------------------------------------------
NoneVal == << -1 >>
Absent == << -2 >>

SetMin(S) == CHOOSE x \in S : \A y \in S : x <= y

\* str.lower() on one code point (ASCII letters)
LowerChar(c) == IF c >= 65 /\ c <= 90 THEN c + 32 ELSE c

\* str.lower()
lower(s) == [i \in 1..Len(s) |-> LowerChar(s[i])]

\* str < str : lexicographic on code points
StrLt(a, b) ==
    LET n == IF Len(a) < Len(b) THEN Len(a) ELSE Len(b)
        diff == {i \in 1..n : a[i] # b[i]}
    IN IF diff = {} THEN Len(a) < Len(b)
       ELSE a[SetMin(diff)] < b[SetMin(diff)]

\* index of the first position where two tuples of equal length differ, 0 if none
FirstDiff(k1, k2) ==
    LET diff == {i \in 1..Len(k1) : k1[i] # k2[i]}
    IN IF diff = {} THEN 0 ELSE SetMin(diff)

\* tuple < tuple : the first differing items are compared with <
TupleLt(k1, k2) ==
    LET i == FirstDiff(k1, k2)
    IN IF i = 0 THEN FALSE ELSE StrLt(k1[i], k2[i])

\* tuple < tuple raises TypeError when the items compared are not both str
TupleLtRaises(k1, k2) ==
    LET i == FirstDiff(k1, k2)
    IN i # 0 /\ (k1[i] = NoneVal \/ k2[i] = NoneVal)

\* x < y on two values that are str or None raises TypeError when one is None
ScalarLtRaises(a, b) == a = NoneVal \/ b = NoneVal

RECURSIVE Digits(_)
Digits(n) == IF n < 10 THEN << 48 + n >>
             ELSE Append(Digits(n \div 10), 48 + (n % 10))

\* str(n) for an int n
str(n) == IF n < 0 THEN << 45 >> \o Digits(-n) ELSE Digits(n)

IsSpace(c) == c \in {9, 10, 13, 32}

RECURSIVE lstrip(_)
lstrip(t) == IF Len(t) > 0 /\ IsSpace(Head(t)) THEN lstrip(Tail(t)) ELSE t

RECURSIVE rstrip(_)
rstrip(t) == IF Len(t) > 0 /\ IsSpace(t[Len(t)])
             THEN rstrip(SubSeq(t, 1, Len(t) - 1)) ELSE t

RECURSIVE DigitsValue(_)
DigitsValue(d) == IF Len(d) = 0 THEN 0
                  ELSE DigitsValue(SubSeq(d, 1, Len(d) - 1)) * 10 + (d[Len(d)] - 48)

\* int(t) for the text t of an element: TypeError for None, ValueError for
\* text that is not an optionally signed decimal number
int(t) ==
    IF t = NoneVal THEN [exc |-> "TypeError", val |-> 0]
    ELSE LET s == rstrip(lstrip(t))
             signed == Len(s) > 0 /\ s[1] \in {43, 45}
             d == IF signed THEN Tail(s) ELSE s
         IN IF Len(d) = 0 \/ \E i \in 1..Len(d) : d[i] < 48 \/ d[i] > 57
            THEN [exc |-> "ValueError", val |-> 0]
            ELSE [exc |-> "none",
                  val |-> IF signed /\ s[1] = 45 THEN 0 - DigitsValue(d)
                          ELSE DigitsValue(d)]

\* list.sort as CPython runs it on a list of fewer than 64 items, on the
\* sequence order of the indexes of the items: lt[i][j] tells whether the key
\* of item i is less than the key of item j, ltRaises[i][j] whether that
\* comparison raises TypeError.

\* count_run: the length of the run that starts the list, from the k-th item
\* on; desc tells whether the run is strictly descending
RECURSIVE count_run(_, _, _, _, _)
count_run(order, k, desc, ltRaises, lt) ==
    IF k > Len(order) THEN [exc |-> "none", n |-> Len(order)]
    ELSE IF ltRaises[order[k]][order[k - 1]] THEN [exc |-> "TypeError", n |-> 0]
    ELSE IF lt[order[k]][order[k - 1]] = desc
    THEN count_run(order, k + 1, desc, ltRaises, lt)
    ELSE [exc |-> "none", n |-> k - 1]

\* reverse_slice: the first n items in reverse
reverse_slice(order, n) ==
    [i \in 1..Len(order) |-> IF i <= n THEN order[n + 1 - i] ELSE order[i]]

\* a search that puts the pivot before the items equal to it
RECURSIVE binary_search_Leftmost(_, _, _, _, _, _)
binary_search_Leftmost(order, pivot, l, r, ltRaises, lt) ==
    IF l >= r THEN l
    ELSE LET p == l + ((r - l) \div 2)
         IN IF ltRaises[pivot][order[p + 1]] THEN -1
            ELSE IF ~lt[order[p + 1]][pivot]
            THEN binary_search_Leftmost(order, pivot, l, p, ltRaises, lt)
            ELSE binary_search_Leftmost(order, pivot, p + 1, r, ltRaises, lt)

\* the binary search of binarysort for the place of pivot in order[l+1..r]
\* (l and r count from 0 as in the C code); -1 when a comparison raises
RECURSIVE binary_search(_, _, _, _, _, _)
binary_search(order, pivot, l, r, ltRaises, lt) ==
    IF l >= r THEN l
    ELSE LET p == l + ((r - l) \div 2)
         IN IF ltRaises[pivot][order[p + 1]] THEN -1
            ELSE IF lt[pivot][order[p + 1]]
            THEN binary_search(order, pivot, l, p, ltRaises, lt)
            ELSE binary_search(order, pivot, p + 1, r, ltRaises, lt)

\* binarysort: insert the items from position start on into the sorted
\* items before them; an exception leaves the items placed so far
RECURSIVE binarysort(_, _, _, _)
binarysort(order, start, ltRaises, lt) ==
    IF start > Len(order) THEN [exc |-> "none", order |-> order]
    ELSE LET pivot == order[start]
             l == binary_search(order, pivot, 0, start - 1, ltRaises, lt)
         IN IF l = -1 THEN [exc |-> "TypeError", order |-> order]
            ELSE binarysort(
                    [i \in 1..Len(order) |->
                        IF i <= l THEN order[i]
                        ELSE IF i = l + 1 THEN pivot
                        ELSE IF i <= start THEN order[i - 1]
                        ELSE order[i]],
                    start + 1, ltRaises, lt)

\* a sort that leaves the items where they are
StableSort_NoSort(n, ltRaises, lt) ==
    [exc |-> "none", order |-> [i \in 1..n |-> i]]

\* list.sort once the keys are computed: [exc, order]
StableSort(n, ltRaises, lt) ==
    LET ident == [i \in 1..n |-> i]
    IN IF n < 2 THEN [exc |-> "none", order |-> ident]
       ELSE IF ltRaises[2][1] THEN [exc |-> "TypeError", order |-> ident]
       ELSE LET desc == lt[2][1]
                run == count_run(ident, 3, desc, ltRaises, lt)
            IN IF run.exc # "none" THEN [exc |-> run.exc, order |-> ident]
               ELSE binarysort(IF desc THEN reverse_slice(ident, run.n) ELSE ident,
                               run.n + 1, ltRaises, lt)

\* text an element holds after xml.etree wrote it and parsed it again:
\* an element whose text is "" or None is written <tag /> and read as None
ElementText(v) == IF v = << >> \/ v = NoneVal THEN NoneVal ELSE v


\* outcome [exc, list] of s.sort(key=...): keyRaises[i] tells whether the key
\* function raises AttributeError on s[i].  The keys are computed first, and
\* a key function that raises leaves the list as it was; a comparison that
\* raises leaves the list as far as it was sorted.
ListSort(s, keyRaises, ltRaises, lt) ==
    IF \E i \in 1..Len(s) : keyRaises[i]
    THEN [exc |-> "AttributeError", list |-> s]
    ELSE LET r == StableSort(Len(s), ltRaises, lt)
         IN [exc |-> r.exc, list |-> [p \in 1..Len(s) |-> s[r.order[p]]]]

\* first exception raised by a sequence of evaluations, "none" if none raises
FirstExc(excs) ==
    LET bad == {i \in 1..Len(excs) : excs[i] # "none"}
    IN IF bad = {} THEN "none" ELSE excs[SetMin(bad)]

\* element.find(tag).text : AttributeError when there is no such child
TextExc(t) == IF t = Absent THEN "AttributeError" ELSE "none"

\* int(element.find(tag).text)
IntExc(t) == IF t = Absent THEN "AttributeError" ELSE int(t).exc

\* the loop over the entries of a file in load: outs[i] is [exc, rec] for
\* the i-th entry, Caught the exceptions of the inner except clause.  An
\* exception outside Caught leaves the loop and load.
LoadEntries(outs, Caught) ==
    LET n == Len(outs)
        uncaught == {i \in 1..n : outs[i].exc \notin (Caught \cup {"none"})}
        good == SelectSeq(outs, LAMBDA o : o.exc = "none")
    IN IF uncaught # {}
       THEN [exc |-> outs[SetMin(uncaught)].exc, loaded |-> << >>, errors |-> 0]
       ELSE [exc |-> "none",
             loaded |-> [i \in 1..Len(good) |-> good[i].rec],
             errors |-> Cardinality({i \in 1..n : outs[i].exc # "none"})]

\* ------------------------------------------------------------------------
\* The file at the path given to save and load
\* ------------------------------------------------------------------------
\* the path the session saves to, and a path where there is never a file
DataPath == "data.xml"
SavePaths == {DataPath}
LoadPaths == {DataPath}

NoFile == [kind |-> "missing", root |-> "", entries |-> << >>]
Directory == [kind |-> "directory", root |-> "", entries |-> << >>]
Malformed == [kind |-> "malformed", root |-> "", entries |-> << >>]
XmlDoc(root, entries) == [kind |-> "xml", root |-> root, entries |-> entries]

SeqsUpTo(S, n) == UNION {[1..k -> S] : k \in 0..n}

\* the count load reports when it reports none
NoCount == -1

\* a call and its outcome: the operation, the path given to it, the exception
\* it raised ("none" when it returned), the filename the exception carries,
\* and the count of skipped entries it reported
Result(op, path, exc, filename, skipped) ==
    [op |-> op, path |-> path, exc |-> exc, filename |-> filename,
     skipped |-> skipped]

NotSaved == [valid |-> FALSE, list |-> << >>]
SavedFrom(list) == [valid |-> TRUE, list |-> list]

\* ET.parse(filename) without the except clause for FileNotFoundError
ParseExc_NoFileNotFoundClause(content) ==
    IF content.kind = "malformed" THEN "DataFormatError"
    ELSE IF content.kind = "missing" THEN "FileNotFoundError"
    ELSE IF content.kind = "directory" THEN "IsADirectoryError"
    ELSE "none"

\* ET.parse(filename) and the except clauses of load around it: the
\* exception that leaves load, "none" when the file is parsed
ParseExc(content) ==
    IF content.kind = "malformed" THEN "DataFormatError"
    ELSE IF content.kind = "missing" THEN "DataFormatError"
    ELSE IF content.kind = "directory" THEN "IsADirectoryError"
    ELSE "none"

\* the result of a load that ET.parse ended
ParseFailure(filename, content) ==
    Result("load", filename, ParseExc(content),
           IF ParseExc(content) = "DataFormatError" THEN filename ELSE "",
           NoCount)

\* ------------------------------------------------------------------------
\* State
\* ------------------------------------------------------------------------
\* program: which of the three programs runs ("birthday", "car", "library")
\* people, cars, books: BirthdayBook.people, CarRegistry.cars, Library.books
\* file: content of the file at DataPath
\* saved: the records the file was saved from, while no one else wrote it
\* last: the last call and its outcome
VARIABLES program, people, cars, books, file, saved, last

vars == << program, people, cars, books, file, saved, last >>

FileAt(filename) == IF filename = DataPath THEN file ELSE NoFile

\* ------------------------------------------------------------------------
\* birthday/models.py
\* ------------------------------------------------------------------------
\* datetime.now().year
CurrentYear == 2026

Person_get_days_in_month_NoCenturyRule(month, year) ==
    IF month = 2
    THEN IF year % 4 = 0 THEN 29 ELSE 28
    ELSE IF month \in {4, 6, 9, 11} THEN 30
    ELSE 31

Person_get_days_in_month(month, year) ==
    IF month = 2
    THEN IF (year % 4 = 0 /\ year % 100 # 0) \/ year % 400 = 0 THEN 29 ELSE 28
    ELSE IF month \in {4, 6, 9, 11} THEN 30
    ELSE 31

\* Person.__post_init__ without the check of the day
Person_post_init_NoDayCheck(day, month, year) ==
    IF year < 1900 \/ year > CurrentYear THEN "InvalidDateError"
    ELSE IF month < 1 \/ month > 12 THEN "InvalidMonthError"
    ELSE "none"

\* Person.__post_init__ with the month checked before the year
Person_post_init_MonthFirst(day, month, year) ==
    IF month < 1 \/ month > 12 THEN "InvalidMonthError"
    ELSE IF year < 1900 \/ year > CurrentYear THEN "InvalidDateError"
    ELSE IF day < 1 \/ day > Person_get_days_in_month(month, year)
    THEN "InvalidDateError"
    ELSE "none"

\* Person.__post_init__ : the exception raised, "none" when the record is built
Person_post_init(day, month, year) ==
    IF year < 1900 \/ year > CurrentYear THEN "InvalidDateError"
    ELSE IF month < 1 \/ month > 12 THEN "InvalidMonthError"
    ELSE IF day < 1 \/ day > Person_get_days_in_month(month, year)
    THEN "InvalidDateError"
    ELSE "none"

Person(last_name, first_name, phone, day, month, year) ==
    [last_name |-> last_name, first_name |-> first_name, phone |-> phone,
     day |-> day, month |-> month, year |-> year]

\* ------------------------------------------------------------------------
\* birthday/storage.py
\* ------------------------------------------------------------------------
\* key=lambda p: (p.last_name.lower(), p.first_name.lower())
PersonKey(p) == << lower(p.last_name), lower(p.first_name) >>
PersonKeyRaises(p) == p.last_name = NoneVal \/ p.first_name = NoneVal
PersonLt(p, q) == TupleLt(PersonKey(p), PersonKey(q))
PersonLtRaises(p, q) == FALSE

PeopleSort(s) ==
    ListSort(s,
             [i \in 1..Len(s) |-> PersonKeyRaises(s[i])],
             [i \in 1..Len(s) |-> [j \in 1..Len(s) |-> PersonLtRaises(s[i], s[j])]],
             [i \in 1..Len(s) |-> [j \in 1..Len(s) |->
                 ~PersonKeyRaises(s[i]) /\ ~PersonKeyRaises(s[j])
                 /\ ~PersonLtRaises(s[i], s[j]) /\ PersonLt(s[i], s[j])]])

BirthdayBook_add_Merging(last_name, first_name, phone, day, month, year) ==
    /\ program = "birthday"
    /\ Len(people) < MaxLen
    /\ LET e == IF month < 1 \/ month > 12 THEN "InvalidMonthError"
                ELSE Person_post_init(day, month, year)
           person == Person(last_name, first_name, phone, day, month, year)
       IN IF e # "none"
          THEN /\ people' = people
               /\ last' = Result("add", "", e, "", NoCount)
          ELSE LET held == \E i \in 1..Len(people) : people[i] = person
                   o == PeopleSort(IF held THEN people ELSE Append(people, person))
               IN /\ people' = o.list
                  /\ last' = Result("add", "", o.exc, "", NoCount)
    /\ UNCHANGED << program, cars, books, file, saved >>

BirthdayBook_add(last_name, first_name, phone, day, month, year) ==
    /\ program = "birthday"
    /\ Len(people) < MaxLen
    /\ LET e == IF month < 1 \/ month > 12 THEN "InvalidMonthError"
                ELSE Person_post_init(day, month, year)
           person == Person(last_name, first_name, phone, day, month, year)
       IN IF e # "none"
          THEN /\ people' = people
               /\ last' = Result("add", "", e, "", NoCount)
          ELSE LET o == PeopleSort(Append(people, person))
               IN /\ people' = o.list
                  /\ last' = Result("add", "", o.exc, "", NoCount)
    /\ UNCHANGED << program, cars, books, file, saved >>

PersonElement(p) ==
    [last_name |-> ElementText(p.last_name),
     first_name |-> ElementText(p.first_name),
     phone |-> ElementText(p.phone),
     day |-> ElementText(str(p.day)),
     month |-> ElementText(str(p.month)),
     year |-> ElementText(str(p.year))]

BirthdayBook_save(filename) ==
    /\ program = "birthday"
    /\ IF file.kind = "directory"
       THEN /\ file' = file
            /\ saved' = saved
            /\ last' = Result("save", filename, "DataFormatError", filename, NoCount)
       ELSE /\ file' = XmlDoc("birthdays",
                          [i \in 1..Len(people) |-> PersonElement(people[i])])
            /\ saved' = SavedFrom(people)
            /\ last' = Result("save", filename, "none", "", NoCount)
    /\ UNCHANGED << program, people, cars, books >>

\* the body of the inner try of load for one <person>
PersonFromElement(e) ==
    LET x == FirstExc(<< TextExc(e.last_name), TextExc(e.first_name),
                         TextExc(e.phone), IntExc(e.day), IntExc(e.month),
                         IntExc(e.year) >>)
    IN IF x # "none" THEN [exc |-> x, rec |-> << >>]
       ELSE LET day == int(e.day).val
                month == int(e.month).val
                year == int(e.year).val
            IN [exc |-> Person_post_init(day, month, year),
                rec |-> Person(e.last_name, e.first_name, e.phone,
                               day, month, year)]

PersonCaught == {"AttributeError", "ValueError", "InvalidDateError",
                 "InvalidMonthError"}

BirthdayBook_load(filename) ==
    /\ program = "birthday"
    /\ IF ParseExc(FileAt(filename)) # "none"
       THEN /\ people' = people
            /\ last' = ParseFailure(filename, FileAt(filename))
       ELSE LET r == LoadEntries([i \in 1..Len(FileAt(filename).entries) |->
                                 PersonFromElement(FileAt(filename).entries[i])],
                              PersonCaught)
            IN IF r.exc # "none"
               THEN /\ people' = people
                    /\ last' = Result("load", filename, r.exc, "", NoCount)
               ELSE LET o == PeopleSort(r.loaded)
                    IN /\ people' = o.list
                       /\ last' = Result("load", filename, o.exc, "",
                                     IF o.exc = "none" THEN r.errors ELSE NoCount)
    /\ UNCHANGED << program, cars, books, file, saved >>

\* arguments given to BirthdayBook.add
\* (last_name, first_name, phone) and (day, month, year)
PersonNames == {<< << >>, << 97 >>, << 49 >> >>,
                << << 66 >>, << 97 >>, << 49 >> >>,
                << << 97 >>, << 97 >>, << 49 >> >>}
Dates == {<< 29, 2, 2000 >>, << 29, 2, 2001 >>, << 31, 4, 2000 >>,
          << 0, 5, 2000 >>, << 15, 0, 2000 >>, << 15, 13, 2000 >>,
          << 15, 5, 1899 >>, << 15, 5, 2027 >>, << 15, 13, 1800 >>}

\* <person> entries of a file written by hand
PersonEntry(l, f, ph, d, m, y) ==
    [last_name |-> l, first_name |-> f, phone |-> ph,
     day |-> d, month |-> m, year |-> y]
PersonEntries ==
    {PersonEntry(ElementText(n[1]), ElementText(n[2]), << 49 >>,
                 str(29), str(2), str(2000)) : n \in PersonNames \ {m \in PersonNames : m[1] = << >>}}
    \cup {PersonEntry(<< 97 >>, << 97 >>, << 49 >>, str(29), str(2), str(2001)),
          PersonEntry(<< 97 >>, << 97 >>, << 49 >>, Absent, str(2), str(2000)),
          PersonEntry(<< 97 >>, << 97 >>, << 49 >>, << 120 >>, str(2), str(2000)),
          PersonEntry(<< 97 >>, << 97 >>, << 49 >>, NoneVal, str(2), str(2000))}

\* ------------------------------------------------------------------------
\* car/models.py
\* ------------------------------------------------------------------------
\* Car.__post_init__ without the check of current_speed against max_speed
Car_post_init_NoLimitCheck(max_speed, current_speed) ==
    IF max_speed <= 0 THEN "InvalidSpeedError"
    ELSE IF current_speed < 0 THEN "InvalidSpeedError"
    ELSE "none"

\* Car.__post_init__ refusing a current_speed equal to max_speed
Car_post_init_StrictLimit(max_speed, current_speed) ==
    IF max_speed <= 0 THEN "InvalidSpeedError"
    ELSE IF current_speed < 0 THEN "InvalidSpeedError"
    ELSE IF current_speed >= max_speed THEN "SpeedLimitExceededError"
    ELSE "none"

\* Car.__post_init__ : the exception raised, "none" when the record is built
Car_post_init(max_speed, current_speed) ==
    IF max_speed <= 0 THEN "InvalidSpeedError"
    ELSE IF current_speed < 0 THEN "InvalidSpeedError"
    ELSE IF current_speed > max_speed THEN "SpeedLimitExceededError"
    ELSE "none"

Car(brand, model, license_plate, max_speed, current_speed) ==
    [brand |-> brand, model |-> model, license_plate |-> license_plate,
     max_speed |-> max_speed, current_speed |-> current_speed]

\* ------------------------------------------------------------------------
\* car/storage.py
\* ------------------------------------------------------------------------
\* key=lambda car: (car.brand, car.model)
CarKey(c) == << c.brand, c.model >>
CarKeyRaises(c) == FALSE
CarLt(c, d) == TupleLt(CarKey(c), CarKey(d))
CarLtRaises(c, d) == TupleLtRaises(CarKey(c), CarKey(d))

CarsSort(s) ==
    ListSort(s,
             [i \in 1..Len(s) |-> CarKeyRaises(s[i])],
             [i \in 1..Len(s) |-> [j \in 1..Len(s) |-> CarLtRaises(s[i], s[j])]],
             [i \in 1..Len(s) |-> [j \in 1..Len(s) |->
                 ~CarKeyRaises(s[i]) /\ ~CarKeyRaises(s[j])
                 /\ ~CarLtRaises(s[i], s[j]) /\ CarLt(s[i], s[j])]])

CarRegistry_add(brand, model, license_plate, max_speed, current_speed) ==
    /\ program = "car"
    /\ Len(cars) < MaxLen
    /\ LET e == Car_post_init(max_speed, current_speed)
           car == Car(brand, model, license_plate, max_speed, current_speed)
       IN IF e # "none"
          THEN /\ cars' = cars
               /\ last' = Result("add", "", e, "", NoCount)
          ELSE LET o == CarsSort(Append(cars, car))
               IN /\ cars' = o.list
                  /\ last' = Result("add", "", o.exc, "", NoCount)
    /\ UNCHANGED << program, people, books, file, saved >>

CarElement(c) ==
    [brand |-> ElementText(c.brand),
     model |-> ElementText(c.model),
     license_plate |-> ElementText(c.license_plate),
     max_speed |-> ElementText(str(c.max_speed)),
     current_speed |-> ElementText(str(c.current_speed))]

CarRegistry_save(filename) ==
    /\ program = "car"
    /\ IF file.kind = "directory"
       THEN /\ file' = file
            /\ saved' = saved
            /\ last' = Result("save", filename, "DataFormatError", filename, NoCount)
       ELSE /\ file' = XmlDoc("cars",
                          [i \in 1..Len(cars) |-> CarElement(cars[i])])
            /\ saved' = SavedFrom(cars)
            /\ last' = Result("save", filename, "none", "", NoCount)
    /\ UNCHANGED << program, people, cars, books >>

\* the body of the inner try of load for one <car>
CarFromElement(e) ==
    LET x == FirstExc(<< TextExc(e.brand), TextExc(e.model),
                         TextExc(e.license_plate), IntExc(e.max_speed),
                         IntExc(e.current_speed) >>)
    IN IF x # "none" THEN [exc |-> x, rec |-> << >>]
       ELSE LET max_speed == int(e.max_speed).val
                current_speed == int(e.current_speed).val
            IN [exc |-> Car_post_init(max_speed, current_speed),
                rec |-> Car(e.brand, e.model, e.license_plate,
                            max_speed, current_speed)]

CarCaught == {"AttributeError", "ValueError", "InvalidSpeedError",
              "SpeedLimitExceededError"}

CarRegistry_load(filename) ==
    /\ program = "car"
    /\ IF ParseExc(FileAt(filename)) # "none"
       THEN /\ cars' = cars
            /\ last' = ParseFailure(filename, FileAt(filename))
       ELSE LET r == LoadEntries([i \in 1..Len(FileAt(filename).entries) |->
                                 CarFromElement(FileAt(filename).entries[i])],
                              CarCaught)
            IN IF r.exc # "none"
               THEN /\ cars' = cars
                    /\ last' = Result("load", filename, r.exc, "", NoCount)
               ELSE LET o == CarsSort(r.loaded)
                    IN /\ cars' = o.list
                       /\ last' = Result("load", filename, o.exc, "",
                                     IF o.exc = "none" THEN r.errors ELSE NoCount)
    /\ UNCHANGED << program, people, books, file, saved >>

\* arguments given to CarRegistry.add
\* (brand, model, license_plate) and (max_speed, current_speed)
CarNames == {<< << >>, << 120 >>, << 49 >> >>,
             << << 66 >>, << 120 >>, << 49 >> >>,
             << << 97 >>, << 120 >>, << 49 >> >>}
Speeds == {<< 200, 200 >>, << 200, 250 >>, << 0, 0 >>,
           << 200, -1 >>, << -5, -10 >>}

\* <car> entries of a file written by hand
CarEntry(b, m, lp, ms, cs) ==
    [brand |-> b, model |-> m, license_plate |-> lp,
     max_speed |-> ms, current_speed |-> cs]
CarEntries ==
    {CarEntry(ElementText(n[1]), ElementText(n[2]), ElementText(n[3]),
              str(200), str(200)) : n \in CarNames \ {m \in CarNames : m[1] = << >>}}
    \cup {CarEntry(<< 97 >>, << 120 >>, << 49 >>, str(200), str(250)),
          CarEntry(<< 97 >>, << 120 >>, << 49 >>, Absent, str(200)),
          CarEntry(<< 97 >>, << 120 >>, << 49 >>, << 120 >>, str(200)),
          CarEntry(<< 97 >>, << 120 >>, << 49 >>, NoneVal, str(200))}

\* ------------------------------------------------------------------------
\* library/models.py
\* ------------------------------------------------------------------------
\* current_year = 2024 in Book.__post_init__
BookCurrentYear == 2024

\* Book.__post_init__ with the calendar year as the upper bound of the year
Book_post_init_CalendarYear(year, pages) ==
    IF year < 0 \/ year > CurrentYear THEN "InvalidInputError"
    ELSE IF pages <= 0 THEN "InvalidInputError"
    ELSE "none"

\* Book.__post_init__ : the exception raised, "none" when the record is built
Book_post_init(year, pages) ==
    IF year < 0 \/ year > BookCurrentYear THEN "InvalidInputError"
    ELSE IF pages <= 0 THEN "InvalidInputError"
    ELSE "none"

Book(title, author, year, genre, pages) ==
    [title |-> title, author |-> author, year |-> year, genre |-> genre,
     pages |-> pages]

\* ------------------------------------------------------------------------
\* library/storage.py
\* ------------------------------------------------------------------------
\* key=lambda book: book.title
BookKey(b) == b.title
BookKeyRaises(b) == FALSE
BookLt(b, c) == StrLt(BookKey(b), BookKey(c))
BookLtRaises(b, c) == ScalarLtRaises(BookKey(b), BookKey(c))

BooksSort(s) ==
    ListSort(s,
             [i \in 1..Len(s) |-> BookKeyRaises(s[i])],
             [i \in 1..Len(s) |-> [j \in 1..Len(s) |-> BookLtRaises(s[i], s[j])]],
             [i \in 1..Len(s) |-> [j \in 1..Len(s) |->
                 ~BookKeyRaises(s[i]) /\ ~BookKeyRaises(s[j])
                 /\ ~BookLtRaises(s[i], s[j]) /\ BookLt(s[i], s[j])]])

Library_add(title, author, year, genre, pages) ==
    /\ program = "library"
    /\ Len(books) < MaxLen
    /\ LET e == Book_post_init(year, pages)
           book == Book(title, author, year, genre, pages)
       IN IF e # "none"
          THEN /\ books' = books
               /\ last' = Result("add", "", e, "", NoCount)
          ELSE LET o == BooksSort(Append(books, book))
               IN /\ books' = o.list
                  /\ last' = Result("add", "", o.exc, "", NoCount)
    /\ UNCHANGED << program, people, cars, file, saved >>

BookElement(b) ==
    [title |-> ElementText(b.title),
     author |-> ElementText(b.author),
     year |-> ElementText(str(b.year)),
     genre |-> ElementText(b.genre),
     pages |-> ElementText(str(b.pages))]

Library_save(filename) ==
    /\ program = "library"
    /\ IF file.kind = "directory"
       THEN /\ file' = file
            /\ saved' = saved
            /\ last' = Result("save", filename, "DataFormatError", filename, NoCount)
       ELSE /\ file' = XmlDoc("library",
                          [i \in 1..Len(books) |-> BookElement(books[i])])
            /\ saved' = SavedFrom(books)
            /\ last' = Result("save", filename, "none", "", NoCount)
    /\ UNCHANGED << program, people, cars, books >>

\* the body of the inner try of load for one <book>
BookFromElement(e) ==
    LET x == FirstExc(<< TextExc(e.title), TextExc(e.author), IntExc(e.year),
                         TextExc(e.genre), IntExc(e.pages) >>)
    IN IF x # "none" THEN [exc |-> x, rec |-> << >>]
       ELSE LET year == int(e.year).val
                pages == int(e.pages).val
            IN [exc |-> Book_post_init(year, pages),
                rec |-> Book(e.title, e.author, year, e.genre, pages)]

BookCaught == {"AttributeError", "ValueError"}

\* Library.load keeps no count of the entries it skips
Library_load(filename) ==
    /\ program = "library"
    /\ IF ParseExc(FileAt(filename)) # "none"
       THEN /\ books' = books
            /\ last' = ParseFailure(filename, FileAt(filename))
       ELSE LET r == LoadEntries([i \in 1..Len(FileAt(filename).entries) |->
                                 BookFromElement(FileAt(filename).entries[i])],
                              BookCaught)
            IN IF r.exc # "none"
               THEN /\ books' = books
                    /\ last' = Result("load", filename, r.exc, "", NoCount)
               ELSE LET o == BooksSort(r.loaded)
                    IN /\ books' = o.list
                       /\ last' = Result("load", filename, o.exc, "",
                                     NoCount)
    /\ UNCHANGED << program, people, cars, file, saved >>

\* arguments given to Library.add
\* (title, author, genre) and (year, pages)
BookNames == {<< << >>, << 120 >>, << 103 >> >>,
              << << 66 >>, << 120 >>, << 103 >> >>,
              << << 97 >>, << 120 >>, << 103 >> >>}
YearsPages == {<< 2024, 1 >>, << 2025, 10 >>, << -1, 10 >>,
               << 2000, 0 >>, << 3000, -10 >>}

\* <book> entries of a file written by hand
BookEntry(t, a, y, g, p) ==
    [title |-> t, author |-> a, year |-> y, genre |-> g, pages |-> p]
BookEntries ==
    {BookEntry(ElementText(n[1]), ElementText(n[2]), str(2024),
               ElementText(n[3]), str(1)) : n \in BookNames \ {m \in BookNames : m[1] = << >>}}
    \cup {BookEntry(<< 97 >>, << 120 >>, str(2000), << 103 >>, str(0)),
          BookEntry(<< 97 >>, << 120 >>, Absent, << 103 >>, str(10)),
          BookEntry(<< 97 >>, << 120 >>, << 120 >>, << 103 >>, str(10)),
          BookEntry(<< 97 >>, << 120 >>, NoneVal, << 103 >>, str(10))}

\* ------------------------------------------------------------------------
\* The session
\* ------------------------------------------------------------------------
RootTag == [birthday |-> "birthdays", car |-> "cars", library |-> "library"]

UserEntries == CASE program = "birthday" -> PersonEntries
                 [] program = "car" -> CarEntries
                 [] program = "library" -> BookEntries

\* the user removes the file, puts a directory in its place, or leaves text
\* that is not well-formed XML
UserReplacesFile ==
    /\ file' \in {NoFile, Directory, Malformed}
    /\ file' # file
    /\ saved' = NotSaved
    /\ last' = Result("user", "", "none", "", NoCount)
    /\ UNCHANGED << program, people, cars, books >>

\* the user writes a well-formed document without entries
UserStartsFile ==
    /\ file' \in {XmlDoc(RootTag[program], << >>), XmlDoc("invalid", << >>)}
    /\ file' # file
    /\ saved' = NotSaved
    /\ last' = Result("user", "", "none", "", NoCount)
    /\ UNCHANGED << program, people, cars, books >>

\* the user appends an entry to a document of the program
UserAppendsEntry ==
    /\ file.kind = "xml"
    /\ file.root = RootTag[program]
    /\ Len(file.entries) < MaxFile
    /\ \E e \in UserEntries :
          file' = [file EXCEPT !.entries = Append(file.entries, e)]
    /\ saved' = NotSaved
    /\ last' = Result("user", "", "none", "", NoCount)
    /\ UNCHANGED << program, people, cars, books >>

Init ==
    /\ program \in {"birthday", "car", "library"}
    /\ people = << >>
    /\ cars = << >>
    /\ books = << >>
    /\ file = NoFile
    /\ saved = NotSaved
    /\ last = Result("init", "", "none", "", NoCount)

Next ==
    \/ \E n \in PersonNames, d \in Dates :
          BirthdayBook_add(n[1], n[2], n[3], d[1], d[2], d[3])
    \/ \E fn \in SavePaths : BirthdayBook_save(fn)
    \/ \E fn \in LoadPaths : BirthdayBook_load(fn)
    \/ \E n \in CarNames, sp \in Speeds :
          CarRegistry_add(n[1], n[2], n[3], sp[1], sp[2])
    \/ \E fn \in SavePaths : CarRegistry_save(fn)
    \/ \E fn \in LoadPaths : CarRegistry_load(fn)
    \/ \E n \in BookNames, yp \in YearsPages :
          Library_add(n[1], n[2], yp[1], n[3], yp[2])
    \/ \E fn \in SavePaths : Library_save(fn)
    \/ \E fn \in LoadPaths : Library_load(fn)
    \/ UserReplacesFile
    \/ UserStartsFile
    \/ UserAppendsEntry

Spec == Init /\ [][Next]_vars

\* ------------------------------------------------------------------------
\* A BirthdayBook constructed with a list of people
\* ------------------------------------------------------------------------
\* conversion of a field in an f-string
fmt(v) == IF v = NoneVal THEN << 78, 111, 110, 101 >> ELSE v

\* Person.full_name
full_name(p) == fmt(p.last_name) \o << 32 >> \o fmt(p.first_name)

\* format 02d of a number that is not negative
fmt02d(n) == IF n < 10 THEN << 48 >> \o str(n) ELSE str(n)

\* Person.birth_date
birth_date(p) ==
    fmt02d(p.day) \o << 46 >> \o fmt02d(p.month) \o << 46 >> \o str(p.year)

\* (day, month, year) of the people given to the constructor
CtorDates == {<< 29, 2, 2000 >>, << 1, 11, 1990 >>}

\* the valid Person records the constructor is given
CtorPersons ==
    {Person(n[1], n[2], n[3], d[1], d[2], d[3]) : n \in PersonNames, d \in CtorDates}

\* BirthdayBook(people=[...]): the list is taken as it is given
InitCtor ==
    /\ program = "birthday"
    /\ people \in SeqsUpTo(CtorPersons, MaxLen)
    /\ cars = << >>
    /\ books = << >>
    /\ file = NoFile
    /\ saved = NotSaved
    /\ last = Result("init", "", "none", "", NoCount)

NextCtor ==
    \/ \E n \in PersonNames, d \in Dates :
          BirthdayBook_add(n[1], n[2], n[3], d[1], d[2], d[3])
    \/ \E fn \in SavePaths : BirthdayBook_save(fn)
    \/ \E fn \in LoadPaths : BirthdayBook_load(fn)
    \/ UserReplacesFile
    \/ UserStartsFile
    \/ UserAppendsEntry

SpecCtor == InitCtor /\ [][NextCtor]_vars

\* ------------------------------------------------------------------------
\* Queries
\* ------------------------------------------------------------------------
\* a call of a constructor or of a query and its outcome: the arguments, the
\* exception raised and the values it carries, or the value returned
CallResult(op, args, exc, ctx) ==
    [op |-> op, path |-> "", exc |-> exc, filename |-> "", skipped |-> NoCount,
     args |-> args, ctx |-> ctx]

\* list.reverse
Reverse(s) == [i \in 1..Len(s) |-> s[Len(s) + 1 - i]]

\* a sort by an int key that leaves the items where they are
SortByInt_NoSort(s, keys) == s

\* list.sort(key=...) with a key that is an int
SortByInt(s, keys) ==
    ListSort(s, [i \in 1..Len(s) |-> FALSE],
             [i \in 1..Len(s) |-> [j \in 1..Len(s) |-> FALSE]],
             [i \in 1..Len(s) |-> [j \in 1..Len(s) |-> keys[i] < keys[j]]]).list

\* Car.is_speeding with a car at its limit counted as speeding
Car_is_speeding_AtLimit(c) == c.current_speed >= c.max_speed

\* Car.is_speeding
Car_is_speeding(c) == c.current_speed > c.max_speed

\* Car.speed_status: the three texts of the source, in the order of its branches
Car_speed_status(c) ==
    IF c.current_speed > c.max_speed THEN "EXCEEDED"
    ELSE IF c.current_speed = 0 THEN "STOPPED"
    ELSE "WITHIN"

\* CarRegistry.select_speeding: list.sort(key=current_speed, reverse=True)
\* reverses the list, sorts it and reverses it again
CarRegistry_select_speeding ==
    LET r == Reverse(SelectSeq(cars, Car_is_speeding))
    IN Reverse(SortByInt(r, [i \in 1..Len(r) |-> r[i].current_speed]))

\* Person.birthday_in_month
Person_birthday_in_month(p, month) == p.month = month

\* BirthdayBook.filter_by_month that takes every month as valid
BirthdayBook_filter_by_month_NoCheck(month) ==
    /\ program = "birthday"
    /\ LET InMonth(p) == Person_birthday_in_month(p, month)
           r == SelectSeq(people, InMonth)
       IN last' = CallResult("filter_by_month", << month >>, "none",
                             SortByInt(r, [i \in 1..Len(r) |-> r[i].day]))
    /\ UNCHANGED << program, people, cars, books, file, saved >>

\* BirthdayBook.filter_by_month: raises InvalidMonthError(month) or returns
\* the persons of the month, sorted by day
BirthdayBook_filter_by_month(month) ==
    /\ program = "birthday"
    /\ IF month < 1 \/ month > 12
       THEN last' = CallResult("filter_by_month", << month >>,
                               "InvalidMonthError", << month >>)
       ELSE LET InMonth(p) == Person_birthday_in_month(p, month)
                r == SelectSeq(people, InMonth)
            IN last' = CallResult("filter_by_month", << month >>, "none",
                                  SortByInt(r, [i \in 1..Len(r) |-> r[i].day]))
    /\ UNCHANGED << program, people, cars, books, file, saved >>

\* str.strip
strip(t) == rstrip(lstrip(t))

\* needle in hay, for two strings
Contains(hay, needle) ==
    \E i \in 0..(Len(hay) - Len(needle)) :
        SubSeq(hay, i + 1, i + Len(needle)) = needle

\* the condition of Library.select for one book: "AttributeError" when
\* .lower() is reached on a field that is None, else "match" or "no"
BookSelectOutcome(b, criterion) ==
    IF b.author = NoneVal THEN "AttributeError"
    ELSE IF Contains(lower(b.author), criterion) THEN "match"
    ELSE IF b.genre = NoneVal THEN "AttributeError"
    ELSE IF Contains(lower(b.genre), criterion) THEN "match"
    ELSE IF b.title = NoneVal THEN "AttributeError"
    ELSE IF Contains(lower(b.title), criterion) THEN "match"
    ELSE "no"

\* Library.select
Library_select(criterion) ==
    /\ program = "library"
    /\ LET c == lower(strip(criterion))
           Raises(b) == BookSelectOutcome(b, c) = "AttributeError"
           Selected(b) == BookSelectOutcome(b, c) = "match"
       IN IF \E i \in 1..Len(books) :
                /\ Raises(books[i])
                /\ \A j \in 1..(i - 1) : ~Raises(books[j])
          THEN last' = CallResult("select", << criterion >>, "AttributeError", << >>)
          ELSE last' = CallResult("select", << criterion >>, "none",
                                  SelectSeq(books, Selected))
    /\ UNCHANGED << program, people, cars, books, file, saved >>

\* arguments given to BirthdayBook.add, Library.add and the queries
QueryNames == {n \in PersonNames : n[1] # << >>}
QueryDates == {<< 15, 5, 1990 >>, << 3, 5, 1992 >>, << 15, 1, 1985 >>}
QueryBookNames == {<< << 65, 98 >>, << 120 >>, << 103 >> >>,
                   << << 99 >>, << 88, 121 >>, << 71 >> >>,
                   << << >>, << 120 >>, << 103 >> >>}
QueryMonths == 0..13
Criteria == {<< 32, 66, 32 >>, << 121 >>, << 71 >>, << 113 >>, << >>}

InitQuery ==
    /\ program \in {"birthday", "library"}
    /\ people = << >>
    /\ cars = << >>
    /\ books = << >>
    /\ file = NoFile
    /\ saved = NotSaved
    /\ last = Result("init", "", "none", "", NoCount)

NextQuery ==
    \/ \E n \in QueryNames, d \in QueryDates :
          BirthdayBook_add(n[1], n[2], n[3], d[1], d[2], d[3])
    \/ \E month \in QueryMonths : BirthdayBook_filter_by_month(month)
    \/ \E n \in QueryBookNames : Library_add(n[1], n[2], 2024, n[3], 1)
    \/ \E fn \in SavePaths : Library_save(fn)
    \/ \E fn \in LoadPaths : Library_load(fn)
    \/ \E criterion \in Criteria : Library_select(criterion)

SpecQuery == InitQuery /\ [][NextQuery]_vars

\* ------------------------------------------------------------------------
\* Construction of the records
\* ------------------------------------------------------------------------
\* the values carried by the exception of Person.__post_init__:
\* InvalidDateError(day, month, year, ...), InvalidMonthError(month)
Person_post_init_ctx(day, month, year) ==
    IF Person_post_init(day, month, year) = "InvalidDateError"
    THEN << day, month, year >>
    ELSE IF Person_post_init(day, month, year) = "InvalidMonthError"
    THEN << month >>
    ELSE << >>

\* the values carried by the exception of Car.__post_init__:
\* InvalidSpeedError(speed, ...), SpeedLimitExceededError(current_speed, max_speed, ...)
Car_post_init_ctx(max_speed, current_speed) ==
    IF max_speed <= 0 THEN << max_speed >>
    ELSE IF current_speed < 0 THEN << current_speed >>
    ELSE IF current_speed > max_speed THEN << current_speed, max_speed >>
    ELSE << >>

\* the value carried by the exception of Book.__post_init__:
\* InvalidInputError(value, ...)
Book_post_init_ctx(year, pages) ==
    IF year < 0 \/ year > BookCurrentYear THEN << year >>
    ELSE IF pages <= 0 THEN << pages >>
    ELSE << >>

\* arguments given to the constructors
NewDays == {0, 1, 28, 29, 30, 31, 32}
NewMonths == 0..13
NewYears == {1899, 1900, 2000, 2001, 2024, CurrentYear, CurrentYear + 1}
NewSpeeds == {-5, -1, 0, 1, 200, 250}
NewBookYears == {-1, 0, 2000, 2024, 2025, CurrentYear, 3000}
NewPages == {-10, 0, 1, 10}

\* Person(last_name, first_name, phone, day, month, year)
Person_new(day, month, year) ==
    /\ program = "birthday"
    /\ last' = CallResult("Person", << day, month, year >>,
                          Person_post_init(day, month, year),
                          Person_post_init_ctx(day, month, year))
    /\ UNCHANGED << program, people, cars, books, file, saved >>

\* Car(brand, model, license_plate, max_speed, current_speed)
Car_new(max_speed, current_speed) ==
    /\ program = "car"
    /\ last' = CallResult("Car", << max_speed, current_speed >>,
                          Car_post_init(max_speed, current_speed),
                          Car_post_init_ctx(max_speed, current_speed))
    /\ UNCHANGED << program, people, cars, books, file, saved >>

\* Book(title, author, year, genre, pages)
Book_new(year, pages) ==
    /\ program = "library"
    /\ last' = CallResult("Book", << year, pages >>,
                          Book_post_init(year, pages),
                          Book_post_init_ctx(year, pages))
    /\ UNCHANGED << program, people, cars, books, file, saved >>

NextNew ==
    \/ \E d \in NewDays, m \in NewMonths, y \in NewYears : Person_new(d, m, y)
    \/ \E ms \in NewSpeeds, cs \in NewSpeeds : Car_new(ms, cs)
    \/ \E y \in NewBookYears, p \in NewPages : Book_new(y, p)

SpecNew == Init /\ [][NextNew]_vars

\* ------------------------------------------------------------------------
\* Properties
\* ------------------------------------------------------------------------
\* the collection of the program that runs
Collection == CASE program = "birthday" -> people
                [] program = "car" -> cars
                [] program = "library" -> books

\* the domain key of a record: (last_name, first_name) without case for a
\* Person, (brand, model) for a Car, the title for a Book
DomainKey(r) == CASE program = "birthday" -> << lower(r.last_name), lower(r.first_name) >>
                  [] program = "car" -> << r.brand, r.model >>
                  [] program = "library" -> << r.title >>

HasKey(r) == \A i \in 1..Len(DomainKey(r)) : DomainKey(r)[i] # NoneVal

\* no two records whose keys exist stand in the wrong order
SortedByKey(s) ==
    \A i, j \in 1..Len(s) :
        (i < j /\ HasKey(s[i]) /\ HasKey(s[j]))
            => ~TupleLt(DomainKey(s[j]), DomainKey(s[i]))

\* C1: after every add or load call, whether it returned or raised, the
\* collection is sorted by its domain key.
C1_SortedAfterAddOrLoad ==
    last.op \in {"add", "load"} => SortedByKey(Collection)

\* the Record invariants
DaysInMonth(month, year) ==
    CASE month = 2 ->
            (IF (year % 4 = 0 /\ year % 100 # 0) \/ year % 400 = 0 THEN 29 ELSE 28)
      [] month \in {4, 6, 9, 11} -> 30
      [] OTHER -> 31

ValidPersonFields(day, month, year) ==
    /\ 1900 <= year /\ year <= CurrentYear
    /\ 1 <= month /\ month <= 12
    /\ 1 <= day /\ day <= DaysInMonth(month, year)

ValidCarFields(max_speed, current_speed) ==
    max_speed > 0 /\ 0 <= current_speed /\ current_speed <= max_speed

ValidBookFields(year, pages) ==
    0 <= year /\ year <= BookCurrentYear /\ pages > 0

ValidRecord(r) ==
    CASE program = "birthday" -> ValidPersonFields(r.day, r.month, r.year)
      [] program = "car" -> ValidCarFields(r.max_speed, r.current_speed)
      [] program = "library" -> ValidBookFields(r.year, r.pages)

ValidationErrors == {"InvalidDateError", "InvalidMonthError", "InvalidSpeedError",
                     "SpeedLimitExceededError", "InvalidInputError"}

\* C2: an add whose field values fail Record validation raises the
\* validation error and leaves the collection as it was before the call.
C2_FailingAddLeavesCollection ==
    [][/\ program = "birthday" =>
            \A d \in Dates : ~ValidPersonFields(d[1], d[2], d[3]) =>
                \A n \in PersonNames :
                    BirthdayBook_add(n[1], n[2], n[3], d[1], d[2], d[3])
                    => (last'.exc \in {"InvalidDateError", "InvalidMonthError"}
                        /\ people' = people)
       /\ program = "car" =>
            \A sp \in Speeds : ~ValidCarFields(sp[1], sp[2]) =>
                \A n \in CarNames :
                    CarRegistry_add(n[1], n[2], n[3], sp[1], sp[2])
                    => (last'.exc \in {"InvalidSpeedError", "SpeedLimitExceededError"}
                        /\ cars' = cars)
       /\ program = "library" =>
            \A yp \in YearsPages : ~ValidBookFields(yp[1], yp[2]) =>
                \A n \in BookNames :
                    Library_add(n[1], n[2], yp[1], n[3], yp[2])
                    => (last'.exc = "InvalidInputError" /\ books' = books)]_vars

\* an add on a collection of two records was refused by the validation
C2_Witness ==
    /\ last.op = "add"
    /\ last.exc \in ValidationErrors
    /\ Len(Collection) = 2

\* C7: a load whose path does not exist, or whose file is not well-formed,
\* raises DataFormatError carrying that path and leaves the collection as it
\* was.
C7_StructuralFailureKeepsCollection ==
    [][(last'.op = "load" /\ FileAt(last'.path).kind \in {"missing", "malformed"})
          => (/\ last'.exc = "DataFormatError"
              /\ last'.filename = last'.path
              /\ people' = people /\ cars' = cars /\ books' = books)]_vars

\* a load of a file that is not well-formed was refused on a collection that
\* holds records
C7_Witness ==
    /\ last.op = "load"
    /\ last.path = DataPath
    /\ file.kind = "malformed"
    /\ last.exc = "DataFormatError"
    /\ Len(Collection) >= 1

\* an entry of a file that is parsed into a record: every child is there,
\* the numeric children hold integers and the values satisfy the invariant
EntryFields(e) ==
    CASE program = "birthday" ->
            << e.last_name, e.first_name, e.phone, e.day, e.month, e.year >>
      [] program = "car" ->
            << e.brand, e.model, e.license_plate, e.max_speed, e.current_speed >>
      [] program = "library" ->
            << e.title, e.author, e.genre, e.year, e.pages >>

\* the record an entry stands for
EntryRecord(e) ==
    CASE program = "birthday" ->
            [last_name |-> e.last_name, first_name |-> e.first_name,
             phone |-> e.phone, day |-> int(e.day).val,
             month |-> int(e.month).val, year |-> int(e.year).val]
      [] program = "car" ->
            [brand |-> e.brand, model |-> e.model,
             license_plate |-> e.license_plate,
             max_speed |-> int(e.max_speed).val,
             current_speed |-> int(e.current_speed).val]
      [] program = "library" ->
            [title |-> e.title, author |-> e.author, year |-> int(e.year).val,
             genre |-> e.genre, pages |-> int(e.pages).val]

EntryParses(e) ==
    /\ \A i \in 1..Len(EntryFields(e)) : EntryFields(e)[i] # Absent
    /\ \A i \in 4..Len(EntryFields(e)) : int(EntryFields(e)[i]).exc = "none"
    /\ ValidRecord(EntryRecord(e))

Count(s, r) == Cardinality({i \in 1..Len(s) : s[i] = r})

\* the records of s are those the entries es are parsed into, as many times
SameRecords(s, es) ==
    LET good == SelectSeq(es, EntryParses)
    IN /\ Len(s) = Len(good)
       /\ \A i \in 1..Len(good) :
             Count(s, EntryRecord(good[i]))
                = Cardinality({j \in 1..Len(good) :
                                  EntryRecord(good[j]) = EntryRecord(good[i])})

C10_RecordsAreValid ==
    \A i \in 1..Len(Collection) : ValidRecord(Collection[i])

\* a load skipped an entry and kept another
C10_Witness ==
    /\ last.op = "load"
    /\ last.exc = "none"
    /\ last.skipped = 1
    /\ Len(Collection) = 1

\* the string fields of a record
StringFields(r) ==
    CASE program = "birthday" -> << r.last_name, r.first_name, r.phone >>
      [] program = "car" -> << r.brand, r.model, r.license_plate >>
      [] program = "library" -> << r.title, r.author, r.genre >>

\* records as add stores them: every string field holds a string
HoldsStrings(s) ==
    \A i \in 1..Len(s) : \A k \in 1..3 : StringFields(s[i])[k] # NoneVal

\* C3: save(path) of a collection built by add, its string fields any
\* strings, the empty one included, followed by load(path) yields the same
\* records, field for field, in the same order.
C3_RoundTrip ==
    (last.op = "load" /\ last.path = DataPath /\ saved.valid
        /\ HoldsStrings(saved.list))
        => (last.exc = "none" /\ Collection = saved.list)

\* every string field of every record holds a string that is not empty
HoldsNames(s) ==
    \A i \in 1..Len(s) : \A k \in 1..3 :
        StringFields(s[i])[k] \notin {NoneVal, << >>}

\* C4: save(file) of a BirthdayBook whose people stand in any order followed
\* by load(file) gives a list of the same length where the person at every
\* index has the full_name and the birth_date of the original at that index.
C4_RoundTripKeepsPositions ==
    (program = "birthday" /\ last.op = "load" /\ last.path = DataPath
        /\ saved.valid /\ HoldsNames(saved.list))
        => /\ last.exc = "none"
           /\ Len(people) = Len(saved.list)
           /\ \A i \in 1..Len(saved.list) :
                 /\ full_name(people[i]) = full_name(saved.list[i])
                 /\ birth_date(people[i]) = birth_date(saved.list[i])

\* C5: BirthdayBook.load and CarRegistry.load of a well-formed file with N
\* entries that parse and validate and M malformed entries return, hold
\* exactly the N valid records and report M skipped.
C5_LoadTolerance ==
    (program \in {"birthday", "car"} /\ last.op = "load"
        /\ FileAt(last.path).kind = "xml")
        => LET es == FileAt(last.path).entries
           IN /\ last.exc = "none"
              /\ SameRecords(Collection, es)
              /\ last.skipped = Len(es) - Len(SelectSeq(es, EntryParses))

\* an entry that is read in full and fails the validation of the record
EntryFailsValidation(e) ==
    /\ \A i \in 1..Len(EntryFields(e)) : EntryFields(e)[i] # Absent
    /\ \A i \in 4..Len(EntryFields(e)) : int(EntryFields(e)[i]).exc = "none"
    /\ ~ValidRecord(EntryRecord(e))

\* C6: in Library.load a book entry that fails the validation of Book is
\* skipped and is not fatal: load goes on and replaces the collection with the
\* valid entries.
C6_LibrarySkipsInvalidBook ==
    (program = "library" /\ last.op = "load" /\ FileAt(last.path).kind = "xml"
        /\ \E i \in 1..Len(FileAt(last.path).entries) :
              EntryFailsValidation(FileAt(last.path).entries[i]))
        => (last.exc = "none"
            /\ SameRecords(Collection, FileAt(last.path).entries))

\* C8: BirthdayBook.load of a well-formed file whose root is not 'birthdays'
\* and that holds no 'person' entry raises DataFormatError.
C8_ForeignDocumentRefused ==
    (program = "birthday" /\ last.op = "load" /\ FileAt(last.path).kind = "xml"
        /\ FileAt(last.path).root # "birthdays"
        /\ FileAt(last.path).entries = << >>)
        => last.exc = "DataFormatError"

\* C11: the construction of a Person succeeds exactly when the year is in
\* 1900..current_year, the month in 1..12 and the day in 1..days_in_month, with
\* 29 days in February of a leap year only.
C11_PersonConstruction ==
    last.op = "Person"
        => (last.exc = "none"
                <=> ValidPersonFields(last.args[1], last.args[2], last.args[3]))

\* Person(..., 29, 2, 1900) was refused
C11_Witness ==
    /\ last.op = "Person"
    /\ last.args = << 29, 2, 1900 >>
    /\ last.exc = "InvalidDateError"

\* C12: Person checks the year first, then the month, then the day: a year
\* out of range gives InvalidDateError whatever the month and the day, else a
\* month out of range gives InvalidMonthError whatever the day, else a day out
\* of range gives InvalidDateError.
C12_PersonCheckOrder ==
    last.op = "Person"
        => LET day == last.args[1]
               month == last.args[2]
               year == last.args[3]
           IN IF year < 1900 \/ year > CurrentYear
              THEN last.exc = "InvalidDateError"
              ELSE IF month < 1 \/ month > 12
              THEN last.exc = "InvalidMonthError"
              ELSE (day < 1 \/ day > DaysInMonth(month, year))
                      => last.exc = "InvalidDateError"

\* a Person whose year, month and day are all out of range was refused for
\* its year
C12_Witness ==
    /\ last.op = "Person"
    /\ last.args = << 0, 13, 1899 >>
    /\ last.exc = "InvalidDateError"
    /\ last.ctx = << 0, 13, 1899 >>

C14_CarConstruction ==
    last.op = "Car"
        => LET max_speed == last.args[1]
               current_speed == last.args[2]
           IN IF max_speed <= 0
              THEN last.exc = "InvalidSpeedError" /\ last.ctx = << max_speed >>
              ELSE IF current_speed < 0
              THEN last.exc = "InvalidSpeedError" /\ last.ctx = << current_speed >>
              ELSE IF current_speed > max_speed
              THEN /\ last.exc = "SpeedLimitExceededError"
                   /\ last.ctx = << current_speed, max_speed >>
              ELSE last.exc = "none"

\* a Car running at its max_speed was built
C14_Witness ==
    /\ last.op = "Car"
    /\ last.args = << 200, 200 >>
    /\ last.exc = "none"

\* C15: no car of a CarRegistry has current_speed > max_speed, so
\* select_speeding returns the empty sequence and no speed_status is the
\* 'exceeded' one.
C15_NoOverspeedCar ==
    program = "car"
        => /\ \A i \in 1..Len(cars) : cars[i].current_speed <= cars[i].max_speed
           /\ CarRegistry_select_speeding = << >>
           /\ \A i \in 1..Len(cars) : Car_speed_status(cars[i]) # "EXCEEDED"

\* a load kept a car at its limit and skipped an entry above its limit
C15_Witness ==
    /\ program = "car"
    /\ last.op = "load"
    /\ last.exc = "none"
    /\ \E i \in 1..Len(cars) : cars[i].current_speed = cars[i].max_speed
    /\ \E i \in 1..Len(file.entries) :
          /\ EntryFailsValidation(file.entries[i])
          /\ int(file.entries[i].current_speed).val
                > int(file.entries[i].max_speed).val

MonthIndices(s, month) == {i \in 1..Len(s) : s[i].month = month}

\* the place of s[i] among the persons at idx when they are put in the order
\* of their days, persons of the same day in the order of s
DayRank(s, idx, i) ==
    Cardinality({j \in idx : \/ s[j].day < s[i].day
                             \/ (s[j].day = s[i].day /\ j <= i)})

\* the persons of s born in the month, by day, equal days in the order of s
ByDayStable(s, month) ==
    LET idx == MonthIndices(s, month)
    IN [k \in 1..Cardinality(idx) |->
            s[CHOOSE i \in idx : DayRank(s, idx, i) = k]]

\* C17: for a month in 1..12 filter_by_month returns exactly the held persons
\* of that month, by day ascending, equal days in collection order, the empty
\* sequence when there is none, and leaves the collection as it is.
C17_FilterByMonth ==
    [][(last'.op = "filter_by_month" /\ last'.args[1] \in 1..12)
          => /\ last'.exc = "none"
             /\ last'.ctx = ByDayStable(people, last'.args[1])
             /\ people' = people]_vars

\* filter_by_month returned two persons of three in the order opposite to
\* the one they have in the collection
C17_Witness ==
    /\ last.op = "filter_by_month"
    /\ last.exc = "none"
    /\ Len(people) = 3
    /\ Len(last.ctx) = 2
    /\ last.ctx[1].day < last.ctx[2].day
    /\ \E i, j \in 1..3 :
          i < j /\ people[i] = last.ctx[2] /\ people[j] = last.ctx[1]

\* C18: filter_by_month with a month outside 1..12 raises InvalidMonthError
\* carrying that month, returns nothing and leaves the collection as it is.
C18_FilterByInvalidMonth ==
    [][(last'.op = "filter_by_month" /\ last'.args[1] \notin 1..12)
          => /\ last'.exc = "InvalidMonthError"
             /\ last'.ctx = << last'.args[1] >>
             /\ people' = people]_vars

\* filter_by_month(13) was refused on a book that holds persons
C18_Witness ==
    /\ last.op = "filter_by_month"
    /\ last.args = << 13 >>
    /\ last.exc = "InvalidMonthError"
    /\ Len(people) >= 1

\* the criterion, trimmed and in lower case, is a substring of the title, of
\* the author or of the genre of the book
BookMatches(b, criterion) ==
    \E field \in {b.title, b.author, b.genre} :
        field # NoneVal /\ Contains(lower(field), lower(strip(criterion)))

\* C19: Library.select returns, in collection order, exactly the held books
\* that match the criterion, the empty sequence and no error when none does,
\* and does not modify the collection.
C19_LibrarySelect ==
    [][last'.op = "select"
          => LET Selected(b) == BookMatches(b, last'.args[1])
             IN /\ last'.exc = "none"
                /\ last'.ctx = SelectSeq(books, Selected)
                /\ books' = books]_vars

\* C20: every failure of save or load that reaches the caller is a
\* DataFormatError whose filename is the path given to the call, for I/O
\* failures, for malformed files and for any exception raised while the
\* entries are processed.
C20_FailuresAreDataFormatErrors ==
    (last.op \in {"save", "load"} /\ last.exc # "none")
        => (last.exc = "DataFormatError" /\ last.filename = last.path)

\* the check of a Record that fails first, "none" when all pass
PersonFailurePath(day, month, year) ==
    IF year < 1900 \/ year > CurrentYear THEN "year"
    ELSE IF month < 1 \/ month > 12 THEN "month"
    ELSE IF day < 1 \/ day > DaysInMonth(month, year) THEN "day"
    ELSE "none"

CarFailurePath(max_speed, current_speed) ==
    IF max_speed <= 0 THEN "max_speed"
    ELSE IF current_speed < 0 THEN "negative"
    ELSE IF current_speed > max_speed THEN "above"
    ELSE "none"

BookFailurePath(year, pages) ==
    IF year < 0 \/ year > 2024 THEN "year"
    ELSE IF pages <= 0 THEN "pages"
    ELSE "none"

\* C24: each validation failure path of a Record yields an error kind that
\* no other failure path of the same Record yields.
C24_DistinctErrorKinds ==
    /\ (last.op = "Person" /\ last.exc # "none") =>
          \A d \in NewDays, m \in NewMonths, y \in NewYears :
              PersonFailurePath(d, m, y)
                  \notin {"none", PersonFailurePath(last.args[1], last.args[2],
                                                    last.args[3])}
              => Person_post_init(d, m, y) # last.exc
    /\ (last.op = "Car" /\ last.exc # "none") =>
          \A ms \in NewSpeeds, cs \in NewSpeeds :
              CarFailurePath(ms, cs)
                  \notin {"none", CarFailurePath(last.args[1], last.args[2])}
              => Car_post_init(ms, cs) # last.exc
    /\ (last.op = "Book" /\ last.exc # "none") =>
          \A y \in NewBookYears, pg \in NewPages :
              BookFailurePath(y, pg)
                  \notin {"none", BookFailurePath(last.args[1], last.args[2])}
              => Book_post_init(y, pg) # last.exc

\* the key of a record with its strings in lower case
LowerKey(r) ==
    CASE program = "birthday" -> << lower(r.last_name), lower(r.first_name) >>
      [] program = "car" -> << lower(r.brand), lower(r.model) >>
      [] program = "library" -> << lower(r.title) >>

\* C25: after a successful add or load of Library or CarRegistry the records
\* are in non-decreasing order of the lower-cased title, or (brand, model).
C25_CaseInsensitiveOrder ==
    (program \in {"car", "library"} /\ last.op \in {"add", "load"}
        /\ last.exc = "none")
        => \A i, j \in 1..Len(Collection) :
              (i < j /\ HasKey(Collection[i]) /\ HasKey(Collection[j]))
              => ~TupleLt(LowerKey(Collection[j]), LowerKey(Collection[i]))

\* C27: whenever load raises, whatever the exception, the collection is
\* identical to what it was before the call.
C27_FailedLoadKeepsCollection ==
    [][(last'.op = "load" /\ last'.exc # "none")
          => (people' = people /\ cars' = cars /\ books' = books)]_vars

\* s without its k-th element
RemoveAt(s, k) == [i \in 1..(Len(s) - 1) |-> IF i < k THEN s[i] ELSE s[i + 1]]

\* new is old with the one record r put in at some position
AddedOne(old, new, r) ==
    /\ Len(new) = Len(old) + 1
    /\ \E k \in 1..Len(new) : new[k] = r /\ RemoveAt(new, k) = old

\* C26: a successful add leaves the collection holding what it held before
\* plus one record built from the arguments, also when an equal record was
\* held already, and the records held before keep their values and their
\* relative order.
C26_AddAddsOneRecord ==
    [][(last'.op = "add" /\ last'.exc = "none") =>
        /\ program = "birthday" =>
            \A d \in Dates : ValidPersonFields(d[1], d[2], d[3]) =>
                \A n \in PersonNames :
                    BirthdayBook_add(n[1], n[2], n[3], d[1], d[2], d[3])
                    => AddedOne(people, people',
                                Person(n[1], n[2], n[3], d[1], d[2], d[3]))
        /\ program = "car" =>
            \A sp \in Speeds : ValidCarFields(sp[1], sp[2]) =>
                \A n \in CarNames :
                    CarRegistry_add(n[1], n[2], n[3], sp[1], sp[2])
                    => AddedOne(cars, cars', Car(n[1], n[2], n[3], sp[1], sp[2]))
        /\ program = "library" =>
            \A yp \in YearsPages : ValidBookFields(yp[1], yp[2]) =>
                \A n \in BookNames :
                    Library_add(n[1], n[2], yp[1], n[3], yp[2])
                    => AddedOne(books, books', Book(n[1], n[2], yp[1], n[3], yp[2]))
      ]_vars

\* an add has returned and the collection holds two equal records
C26_Witness ==
    /\ last.op = "add" /\ last.exc = "none"
    /\ \E i, j \in 1..Len(Collection) : i < j /\ Collection[i] = Collection[j]
    /\ \E i, j \in 1..Len(Collection) : DomainKey(Collection[i]) # DomainKey(Collection[j])

\* ------------------------------------------------------------------------
\* Collections built by add alone.  Two of the records of each collection
\* have equal sort keys and differ in another field
\* ------------------------------------------------------------------------
AddPersonNames == {<< << >>, << 97 >>, << 49 >> >>,
                   << << 66 >>, << 97 >>, << 49 >> >>,
                   << << 98 >>, << 97 >>, << 49 >> >>,
                   << << 97 >>, << 97 >>, << 49 >> >>}
AddCarNames == {<< << >>, << 120 >>, << 49 >> >>,
                << << 66 >>, << 120 >>, << 49 >> >>,
                << << 66 >>, << 120 >>, << 50 >> >>,
                << << 97 >>, << 120 >>, << 49 >> >>}
AddBookNames == {<< << >>, << 120 >>, << 103 >> >>,
                 << << 66 >>, << 120 >>, << 103 >> >>,
                 << << 66 >>, << 121 >>, << 103 >> >>,
                 << << 97 >>, << 120 >>, << 103 >> >>}

NextAdd ==
    \/ \E n \in AddPersonNames : BirthdayBook_add(n[1], n[2], n[3], 29, 2, 2000)
    \/ \E n \in AddCarNames : CarRegistry_add(n[1], n[2], n[3], 200, 200)
    \/ \E n \in AddBookNames : Library_add(n[1], n[2], 2024, n[3], 1)

SpecAdd == Init /\ [][NextAdd]_vars

\* the collection after its sort
Sorted(s) == CASE program = "birthday" -> PeopleSort(s).list
               [] program = "car" -> CarsSort(s).list
               [] program = "library" -> BooksSort(s).list

\* the collection after the valid records rs were added to an empty one,
\* one after the other
RECURSIVE AddAll(_)
AddAll(rs) ==
    IF rs = << >> THEN << >>
    ELSE Sorted(Append(AddAll(SubSeq(rs, 1, Len(rs) - 1)), rs[Len(rs)]))

\* the sequences that hold the records of s in some order
Orderings(s) ==
    {[i \in 1..Len(s) |-> s[q[i]]] :
        q \in {f \in [1..Len(s) -> 1..Len(s)] :
                  \A i, j \in 1..Len(s) : f[i] = f[j] => i = j}}

DistinctKeys(s) ==
    \A i, j \in 1..Len(s) : i # j => DomainKey(s[i]) # DomainKey(s[j])

\* C29: records with pairwise distinct sort keys added to an empty collection
\* give the same sequence in whatever order they are added, and a record
\* added to records with the same sort key ends up after them.
C29_InsertionOrderIndependence ==
    [][(last'.op = "add" /\ last'.exc = "none") =>
        /\ DistinctKeys(Collection')
              => \A rs \in Orderings(Collection') : AddAll(rs) = Collection'
        /\ \E k \in 1..Len(Collection') :
              /\ RemoveAt(Collection', k) = Collection
              /\ \A i \in 1..Len(Collection') :
                    DomainKey(Collection'[i]) = DomainKey(Collection'[k]) => i <= k
      ]_vars

\* an add has returned and the collection is full: it holds two different
\* records with equal keys and records with distinct keys
C29_Witness ==
    /\ last.op = "add" /\ last.exc = "none"
    /\ Len(Collection) = MaxLen
    /\ \E i, j \in 1..Len(Collection) :
          i < j /\ Collection[i] # Collection[j]
          /\ DomainKey(Collection[i]) = DomainKey(Collection[j])
    /\ \E i, j \in 1..Len(Collection) :
          DomainKey(Collection[i]) # DomainKey(Collection[j])

\* ------------------------------------------------------------------------
\* birthday/models.py: Person.age
\* ------------------------------------------------------------------------
\* (month, day) of datetime.now(); its year is CurrentYear
Todays == {<< 1, 1 >>, << 11, 2 >>, << 12, 31 >>}

\* (today.month, today.day) < (self.month, self.day)
MonthDayLt(m1, d1, m2, d2) == m1 < m2 \/ (m1 = m2 /\ d1 < d2)

Person_age(day, month, year, today) ==
    LET age == CurrentYear - year
    IN IF MonthDayLt(today[1], today[2], month, day) THEN age - 1 ELSE age

\* a Person is constructed and its age is read
Person_age_get(day, month, year, today) ==
    /\ program = "birthday"
    /\ Person_post_init(day, month, year) = "none"
    /\ last' = CallResult("age", << day, month, year, today[1], today[2] >>,
                          "none", << Person_age(day, month, year, today) >>)
    /\ UNCHANGED << program, people, cars, books, file, saved >>

NextAge ==
    \E d \in NewDays, m \in NewMonths, y \in NewYears, t \in Todays :
        Person_age_get(d, m, y, t)

SpecAge == Init /\ [][NextAge]_vars

\* C30: the age of an accepted Person is today's year minus the birth year,
\* less one when today's (month, day) is before the birth (month, day), and
\* it is never negative.
C30_AgeNeverNegative ==
    last.op = "age" =>
        LET before == last.args[4] < last.args[2]
                      \/ (last.args[4] = last.args[2] /\ last.args[5] < last.args[1])
            years == CurrentYear - last.args[3]
        IN /\ last.ctx[1] = (IF before THEN years - 1 ELSE years)
           /\ last.ctx[1] >= 0

\* ------------------------------------------------------------------------
\* save step by step: tree.write(filename, ...) opens the file at filename
\* for writing, which empties it, and then writes the document piece by
\* piece; an OSError on the way (no space left, file too large) ends the
\* call with the pieces written so far in the file
\* ------------------------------------------------------------------------
Writing == last.op = "write"

\* tree.write opens the file: it is empty until the first piece is written
tree_write_open(filename) ==
    /\ ~Writing
    /\ file.kind # "directory"
    /\ file' = Malformed
    /\ saved' = NotSaved
    /\ last' = Result("write", filename, "none", "", NoCount)
    /\ UNCHANGED << program, people, cars, books >>

\* all pieces are written and save returns
tree_write_done ==
    /\ Writing
    /\ \/ BirthdayBook_save(last.path)
       \/ CarRegistry_save(last.path)
       \/ Library_save(last.path)

\* a write raises OSError: except Exception of save raises DataFormatError
tree_write_fails ==
    /\ Writing
    /\ file' = Malformed
    /\ saved' = NotSaved
    /\ last' = Result("save", last.path, "DataFormatError", last.path, NoCount)
    /\ UNCHANGED << program, people, cars, books >>

NextSave ==
    \/ /\ ~Writing
       /\ \/ \E n \in PersonNames : BirthdayBook_add(n[1], n[2], n[3], 29, 2, 2000)
          \/ \E n \in CarNames : CarRegistry_add(n[1], n[2], n[3], 200, 200)
          \/ \E n \in BookNames : Library_add(n[1], n[2], 2024, n[3], 1)
    \/ \E fn \in SavePaths : tree_write_open(fn)
    \/ tree_write_done
    \/ tree_write_fails

SpecSave == Init /\ [][NextSave]_vars

\* the document save writes for a collection
Serialized(list) ==
    XmlDoc(RootTag[program],
           CASE program = "birthday" -> [i \in 1..Len(list) |-> PersonElement(list[i])]
             [] program = "car" -> [i \in 1..Len(list) |-> CarElement(list[i])]
             [] program = "library" -> [i \in 1..Len(list) |-> BookElement(list[i])])

\* C23: during and after every save call, one that fails part-way included,
\* the file holds its previous content (no file, or the document of an
\* earlier save) or the whole document of the current collection.
C23_SaveIsAtomic ==
    \/ file = NoFile
    \/ saved.valid /\ file = Serialized(saved.list)

\* ------------------------------------------------------------------------
\* main.py of the three programs: the imports and the command loop
\* ------------------------------------------------------------------------
\* the exception classes each models.py defines
ModelsDefines ==
    [birthday |-> {"InvalidMonthError", "InvalidDateError", "DataFormatError",
                   "UnknownCommandError"},
     car |-> {"SpeedLimitExceededError", "InvalidSpeedError", "InvalidCarError",
              "DataFormatError"},
     library |-> {"InvalidInputError", "DataFormatError", "UnknownCommandError"}]

\* from models import ... at the head of each main.py
MainImports ==
    [birthday |-> {"InvalidDateError", "InvalidMonthError", "UnknownCommandError"},
     car |-> {"InvalidSpeedError", "SpeedLimitExceededError", "UnknownCommandError"},
     library |-> {"InvalidInputError", "UnknownCommandError"}]

\* the words of the commands, as code points
W_exit == << 101, 120, 105, 116 >>
W_help == << 104, 101, 108, 112 >>
W_add == << 97, 100, 100 >>
W_save == << 115, 97, 118, 101 >>
W_load == << 108, 111, 97, 100 >>
W_foo == << 102, 111, 111 >>
W_data == << 100, 97, 116, 97 >>
W_xml == << 46, 120, 109, 108 >>
Space == << 32 >>

\* the lines the user types
InputLines == {W_exit, W_help, W_add, W_foo, W_save, Space,
               W_save \o Space \o W_data,
               W_save \o Space \o W_data \o W_xml,
               W_load \o Space \o W_data,
               W_load \o Space \o W_data \o W_xml \o Space}

startswith(t, prefix) ==
    Len(t) >= Len(prefix) /\ SubSeq(t, 1, Len(prefix)) = prefix

endswith(t, suffix) ==
    Len(t) >= Len(suffix)
    /\ SubSeq(t, Len(t) - Len(suffix) + 1, Len(t)) = suffix

\* command.split(maxsplit=1)[1] for a stripped command whose first word has
\* n letters and is followed by a space
parts_1(command, n) == lstrip(SubSeq(command, n + 1, Len(command)))

\* the name of the file a string of code points names
PathName(t) == IF t = W_data \o W_xml THEN DataPath
               ELSE IF t = W_data THEN "data"
               ELSE "other"

\* main.py imported its names and has not left the loop
Running ==
    /\ last.op \notin {"init", "exit"}
    /\ ~(last.op = "import" /\ last.exc # "none")
    /\ last.exc # "KeyboardInterrupt"

\* python main.py: the import of the names from models.py
Main_import ==
    /\ last.op = "init"
    /\ last' = CallResult("import", << >>,
                          IF MainImports[program] \subseteq ModelsDefines[program]
                          THEN "none" ELSE "ImportError",
                          << >>)
    /\ UNCHANGED << program, people, cars, books, file, saved >>

\* what get_person_info and get_book_info let through
get_person_info(n, d) ==
    /\ strip(n[1]) # << >> /\ strip(n[2]) # << >> /\ strip(n[3]) # << >>
    /\ d[2] >= 1 /\ d[2] <= 12

get_book_info(n) ==
    strip(n[1]) # << >> /\ strip(n[2]) # << >> /\ strip(n[3]) # << >>

\* the add branch: the record is asked for and added.  car/main.py never
\* gets to its loop (Main_import)
Main_add ==
    \/ \E n \in PersonNames, d \in Dates :
          /\ get_person_info(n, d)
          /\ BirthdayBook_add(n[1], n[2], n[3], d[1], d[2], d[3])
    \/ \E n \in BookNames, yp \in YearsPages :
          /\ get_book_info(n)
          /\ Library_add(n[1], n[2], yp[1], n[3], yp[2])

\* the save branch
Main_save(parts1) ==
    LET filename == IF ~endswith(parts1, W_xml) THEN parts1 \o W_xml ELSE parts1
    IN /\ PathName(filename) \in SavePaths
       /\ \/ BirthdayBook_save(PathName(filename))
          \/ Library_save(PathName(filename))

\* the load branch
Main_load(parts1) ==
    \/ BirthdayBook_load(PathName(parts1))
    \/ Library_load(PathName(parts1))

\* a step of the loop that changes nothing but the last outcome
Main_report(op, exc, ctx) ==
    /\ last' = CallResult(op, << >>, exc, ctx)
    /\ UNCHANGED << program, people, cars, books, file, saved >>

\* one turn of the loop for a line read by input()
Main_command(line) ==
    /\ Running
    /\ LET command == strip(line)
           low == lower(command)
       IN IF command = << >> THEN Main_report("continue", "none", << >>)
          ELSE IF low = W_exit THEN Main_report("exit", "none", << >>)
          ELSE IF low = W_help THEN Main_report("help", "none", << >>)
          ELSE IF low = W_add THEN Main_add
          ELSE IF startswith(low, W_save \o Space)
          THEN Main_save(parts_1(command, Len(W_save)))
          ELSE IF startswith(low, W_load \o Space)
          THEN Main_load(parts_1(command, Len(W_load)))
          ELSE Main_report("command", "UnknownCommandError", command)

\* input() raises: end of input is reported by except Exception, a keyboard
\* interrupt leaves the loop
Main_input_raises(e) ==
    /\ Running
    /\ Main_report("input", e, << >>)

Main_user == Running /\ UserReplacesFile

NextMain ==
    \/ Main_import
    \/ \E line \in InputLines : Main_command(line)
    \/ \E e \in {"EOFError", "KeyboardInterrupt"} : Main_input_raises(e)
    \/ Main_user

SpecMain == Init /\ [][NextMain]_vars

\* the file name of the claim: with .xml appended unless it ends in .xml
WithXml(t) == IF endswith(t, W_xml) THEN t ELSE t \o W_xml

\* C21: the path handed to save and the path handed to load for a command
\* argument are both the argument with .xml appended unless it ends in .xml.
C21_SaveAndLoadSamePath ==
    [][\A line \in InputLines :
          LET command == strip(line)
          IN (/\ \/ startswith(lower(command), W_save \o Space)
                 \/ startswith(lower(command), W_load \o Space)
              /\ Main_command(line))
             => last'.path = PathName(WithXml(parts_1(command, 4)))]_vars

\* the lines that match no command
MatchesNoCommand(line) ==
    LET low == lower(strip(line))
    IN /\ low \notin {<< >>, W_exit, W_help, W_add}
       /\ ~startswith(low, W_save \o Space)
       /\ ~startswith(low, W_load \o Space)

\* C22: each program starts its command loop, and a line that matches no
\* command is reported as UnknownCommandError with the loop still running and
\* the collection as it was.
C22_LoopStartsAndReportsUnknown ==
    [][/\ Main_import => Running'
       /\ \A line \in InputLines :
             (MatchesNoCommand(line) /\ Main_command(line))
             => /\ last'.exc = "UnknownCommandError"
                /\ Running'
                /\ people' = people /\ cars' = cars /\ books' = books]_vars

\* C28: the program is out of its command loop only after exit or a keyboard
\* interrupt; after any other exception the loop is still running.
C28_LoopEndsOnExitOrInterrupt ==
    (last.op # "init" /\ ~Running)
        => (last.op = "exit" \/ last.exc = "KeyboardInterrupt")

====
